---- MODULE Spec2Model ----
(***************************************************************************)
(* Voting state machine of Polkadot-Nairobi/programming-tasks, in its      *)
(* three drafts:                                                           *)
(*   - the ink! contract VotingContract                                    *)
(*       (1-low-level-intro-to-polkadot/solution/lib.rs),                  *)
(*   - the struct VotingMachine                                            *)
(*       (1-low-level-intro-to-polkadot/solution/src/main.rs),             *)
(*   - the free functions over VotingState                                 *)
(*       (1-low-level-intro-to-polkadot/solution/src/lib.rs).              *)
(* Every operation is an operator from (state, caller, inputs, clock) to   *)
(* a record [res, st]: the value returned and the state left behind.  An   *)
(* action applies one operation and records the call in a *_last variable. *)
(***************************************************************************)
EXTENDS Integers, Sequences, FiniteSets, TLC

VARIABLES
    overflow_checks,  \* build profile: TRUE = arithmetic overflow panics, FALSE = it wraps
    ink,              \* storage of the ink! VotingContract
    ink_env,          \* the chain environment the contract reads: block number and timestamp
    ink_last,         \* the last call made to the contract
    vm,               \* the fields of VotingMachine
    vm_now,           \* the system clock VotingMachine::get_current_time reads
    vm_last,          \* the last call made to the VotingMachine
    draft,            \* the VotingState struct of the free-function draft
    draft_now,        \* the system clock the free functions read
    draft_last,       \* the last free function called
    wish,             \* the storage of the Wishlist contract: owner and items
    wish_last,        \* the last message sent to the Wishlist contract
    wish_added        \* the items of the add_item calls that returned Ok, in call order

inkVars   == <<ink, ink_env, ink_last>>
vmVars    == <<vm, vm_now, vm_last>>
draftVars == <<draft, draft_now, draft_last>>
wishVars  == <<wish, wish_last, wish_added>>
vars      == <<overflow_checks, ink, ink_env, ink_last, vm, vm_now, vm_last,
               draft, draft_now, draft_last, wish, wish_last, wish_added>>

(***************************************************************************)
(* Bounds of the model.                                                    *)
(***************************************************************************)
\* Stand-in for 2^64, the width of Timestamp / u64: clock values are 0..TimeMod-1.
TimeMod == 5
\* Largest duration passed to start_voting.
MaxDuration == 2

Times     == 0 .. (TimeMod - 1)
Durations == 0 .. MaxDuration

(***************************************************************************)
(* Helpers shared by the drafts.                                           *)
(***************************************************************************)
\* Vec::contains / iter().any(|v| *v == x)
Contains(s, x) == \E i \in 1..Len(s) : s[i] = x

NoCall == [op |-> "none", caller |-> "-", res |-> "-", duration |-> 0, option |-> "-"]

Call(op, caller, res, duration, option) ==
    [op |-> op, caller |-> caller, res |-> res, duration |-> duration, option |-> option]

(***************************************************************************)
(* The ink! contract: VotingContract.                                      *)
(***************************************************************************)
\* ink_env::test::default_accounts: alice is the default caller, hence the
\* deployer and admin; bob is the other caller of the tests
Accounts == {"alice", "bob"}

VoteOption == {"OptionA", "OptionB"}

\* Ink_new leaving admin_id at the default (all-zero) account
Ink_new_DefaultAdmin(deployer) ==
    [ current_voting_state     |-> "RegistrationOpen",
      registered_voters        |-> <<>>,
      votes_cast               |-> <<>>,
      vote_counts              |-> [o \in VoteOption |-> 0],
      voting_start_time        |-> 0,
      voting_end_time          |-> 0,
      admin_id                 |-> "zero",
      registration_start_block |-> 0 ]

\* VotingContract::new, called by deployer
Ink_new(deployer) ==
    [ current_voting_state     |-> "RegistrationOpen",
      registered_voters        |-> <<>>,
      votes_cast               |-> <<>>,
      vote_counts              |-> [o \in VoteOption |-> 0],
      voting_start_time        |-> 0,
      voting_end_time          |-> 0,
      admin_id                 |-> deployer,
      registration_start_block |-> 0 ]

Ink_is_registered(self, voter) == Contains(self.registered_voters, voter)

Ink_has_voted(self, voter) == Contains(self.votes_cast, voter)

Ink_get_vote_count(self, option) == self.vote_counts[option]

Ink_start_registration(self, caller, env) ==
    IF caller # self.admin_id
    THEN [res |-> "NotAuthorized", st |-> self]
    ELSE [res |-> "Ok",
          st  |-> [self EXCEPT !.registered_voters = <<>>,
                               !.votes_cast = <<>>,
                               !.vote_counts = [o \in VoteOption |-> 0],
                               !.current_voting_state = "RegistrationOpen",
                               !.registration_start_block = env.block_number]]

\* Ink_register_voter with the is_registered test left out
Ink_register_voter_NoDuplicateCheck(self, caller) ==
    IF self.current_voting_state # "RegistrationOpen"
    THEN [res |-> "InvalidStateTransition", st |-> self]
    ELSE [res |-> "Ok",
          st  |-> [self EXCEPT !.registered_voters = Append(@, caller)]]

\* Ink_register_voter that answers Ok, and adds nothing, to a registered caller
Ink_register_voter_SilentIgnore(self, caller) ==
    IF self.current_voting_state # "RegistrationOpen"
    THEN [res |-> "InvalidStateTransition", st |-> self]
    ELSE IF Ink_is_registered(self, caller)
    THEN [res |-> "Ok", st |-> self]
    ELSE [res |-> "Ok",
          st  |-> [self EXCEPT !.registered_voters = Append(@, caller)]]

Ink_register_voter(self, caller) ==
    IF self.current_voting_state # "RegistrationOpen"
    THEN [res |-> "InvalidStateTransition", st |-> self]
    ELSE IF Ink_is_registered(self, caller)
    THEN [res |-> "AlreadyRegistered", st |-> self]
    ELSE [res |-> "Ok",
          st  |-> [self EXCEPT !.registered_voters = Append(@, caller)]]

\* Ink_start_voting without the test that the phase is RegistrationOpen
Ink_start_voting_AnyPhase(self, caller, duration_in_units, env, checks) ==
    IF caller # self.admin_id
    THEN [res |-> "NotAuthorized", st |-> self]
    ELSE IF duration_in_units <= 0
    THEN [res |-> "InvalidDuration", st |-> self]
    ELSE IF checks /\ env.block_timestamp + duration_in_units >= TimeMod
    THEN [res |-> "Panic", st |-> self]
    ELSE [res |-> "Ok",
          st  |-> [self EXCEPT !.voting_start_time = env.block_timestamp,
                               !.voting_end_time =
                                   (env.block_timestamp + duration_in_units) % TimeMod,
                               !.current_voting_state = "VotingActive"]]

\* voting_start_time + duration_in_units on u64: with overflow checks the
\* message traps and the chain discards its storage writes; without, it wraps.
Ink_start_voting(self, caller, duration_in_units, env, checks) ==
    IF caller # self.admin_id
    THEN [res |-> "NotAuthorized", st |-> self]
    ELSE IF self.current_voting_state # "RegistrationOpen"
    THEN [res |-> "InvalidStateTransition", st |-> self]
    ELSE IF duration_in_units <= 0
    THEN [res |-> "InvalidDuration", st |-> self]
    ELSE IF checks /\ env.block_timestamp + duration_in_units >= TimeMod
    THEN [res |-> "Panic", st |-> self]
    ELSE [res |-> "Ok",
          st  |-> [self EXCEPT !.voting_start_time = env.block_timestamp,
                               !.voting_end_time =
                                   (env.block_timestamp + duration_in_units) % TimeMod,
                               !.current_voting_state = "VotingActive"]]

\* Ink_cast_vote with the increment of the chosen option's count left out
Ink_cast_vote_NoCount(self, caller, vote_option, env) ==
    IF self.current_voting_state # "VotingActive"
    THEN [res |-> "InvalidStateTransition", st |-> self]
    ELSE IF ~Ink_is_registered(self, caller)
    THEN [res |-> "NotRegistered", st |-> self]
    ELSE IF Ink_has_voted(self, caller)
    THEN [res |-> "AlreadyVoted", st |-> self]
    ELSE IF env.block_timestamp < self.voting_start_time
            \/ env.block_timestamp > self.voting_end_time
    THEN [res |-> "VotingPeriodNotActive", st |-> self]
    ELSE [res |-> "Ok",
          st  |-> [self EXCEPT !.votes_cast = Append(@, caller)]]

\* Ink_cast_vote testing the voting window before the caller
Ink_cast_vote_WindowFirst(self, caller, vote_option, env) ==
    IF self.current_voting_state # "VotingActive"
    THEN [res |-> "InvalidStateTransition", st |-> self]
    ELSE IF env.block_timestamp < self.voting_start_time
            \/ env.block_timestamp > self.voting_end_time
    THEN [res |-> "VotingPeriodNotActive", st |-> self]
    ELSE IF ~Ink_is_registered(self, caller)
    THEN [res |-> "NotRegistered", st |-> self]
    ELSE IF Ink_has_voted(self, caller)
    THEN [res |-> "AlreadyVoted", st |-> self]
    ELSE [res |-> "Ok",
          st  |-> [self EXCEPT !.votes_cast = Append(@, caller),
                               !.vote_counts[vote_option] = @ + 1]]

\* Ink_cast_vote without the test that the phase is VotingActive
Ink_cast_vote_NoPhaseCheck(self, caller, vote_option, env) ==
    IF ~Ink_is_registered(self, caller)
    THEN [res |-> "NotRegistered", st |-> self]
    ELSE IF Ink_has_voted(self, caller)
    THEN [res |-> "AlreadyVoted", st |-> self]
    ELSE IF env.block_timestamp < self.voting_start_time
            \/ env.block_timestamp > self.voting_end_time
    THEN [res |-> "VotingPeriodNotActive", st |-> self]
    ELSE [res |-> "Ok",
          st  |-> [self EXCEPT !.votes_cast = Append(@, caller),
                               !.vote_counts[vote_option] = @ + 1]]

Ink_cast_vote(self, caller, vote_option, env) ==
    IF self.current_voting_state # "VotingActive"
    THEN [res |-> "InvalidStateTransition", st |-> self]
    ELSE IF ~Ink_is_registered(self, caller)
    THEN [res |-> "NotRegistered", st |-> self]
    ELSE IF Ink_has_voted(self, caller)
    THEN [res |-> "AlreadyVoted", st |-> self]
    ELSE IF env.block_timestamp < self.voting_start_time
            \/ env.block_timestamp > self.voting_end_time
    THEN [res |-> "VotingPeriodNotActive", st |-> self]
    ELSE [res |-> "Ok",
          st  |-> [self EXCEPT !.votes_cast = Append(@, caller),
                               !.vote_counts[vote_option] = @ + 1]]

\* Ink_end_voting with the phase checked before the caller
Ink_end_voting_PhaseFirst(self, caller, env) ==
    IF self.current_voting_state # "VotingActive"
    THEN [res |-> "InvalidStateTransition", st |-> self]
    ELSE IF caller # self.admin_id
    THEN [res |-> "NotAuthorized", st |-> self]
    ELSE IF env.block_timestamp < self.voting_end_time
    THEN [res |-> "VotingPeriodNotActive", st |-> self]
    ELSE [res |-> "Ok",
          st  |-> [self EXCEPT !.current_voting_state = "ResultsFinalized"]]

\* Ink_end_voting with the check of the block timestamp left out
Ink_end_voting_NoExpiryCheck(self, caller, env) ==
    IF caller # self.admin_id
    THEN [res |-> "NotAuthorized", st |-> self]
    ELSE IF self.current_voting_state # "VotingActive"
    THEN [res |-> "InvalidStateTransition", st |-> self]
    ELSE [res |-> "Ok",
          st  |-> [self EXCEPT !.current_voting_state = "ResultsFinalized"]]

\* Ink_end_voting that also empties votes_cast when it finalizes
Ink_end_voting_ClearsVotes(self, caller, env) ==
    IF caller # self.admin_id
    THEN [res |-> "NotAuthorized", st |-> self]
    ELSE IF self.current_voting_state # "VotingActive"
    THEN [res |-> "InvalidStateTransition", st |-> self]
    ELSE IF env.block_timestamp < self.voting_end_time
    THEN [res |-> "VotingPeriodNotActive", st |-> self]
    ELSE [res |-> "Ok",
          st  |-> [self EXCEPT !.current_voting_state = "ResultsFinalized",
                               !.votes_cast = <<>>]]

\* Ink_end_voting still refusing at the very timestamp voting_end_time
Ink_end_voting_StrictlyAfter(self, caller, env) ==
    IF caller # self.admin_id
    THEN [res |-> "NotAuthorized", st |-> self]
    ELSE IF self.current_voting_state # "VotingActive"
    THEN [res |-> "InvalidStateTransition", st |-> self]
    ELSE IF env.block_timestamp <= self.voting_end_time
    THEN [res |-> "VotingPeriodNotActive", st |-> self]
    ELSE [res |-> "Ok",
          st  |-> [self EXCEPT !.current_voting_state = "ResultsFinalized"]]

Ink_end_voting(self, caller, env) ==
    IF caller # self.admin_id
    THEN [res |-> "NotAuthorized", st |-> self]
    ELSE IF self.current_voting_state # "VotingActive"
    THEN [res |-> "InvalidStateTransition", st |-> self]
    ELSE IF env.block_timestamp < self.voting_end_time
    THEN [res |-> "VotingPeriodNotActive", st |-> self]
    ELSE [res |-> "Ok",
          st  |-> [self EXCEPT !.current_voting_state = "ResultsFinalized"]]

\* Ink_reset_application with the reset of the two times left out
Ink_reset_application_KeepsWindow(self, caller) ==
    IF caller # self.admin_id
    THEN [res |-> "NotAuthorized", st |-> self]
    ELSE [res |-> "Ok",
          st  |-> [self EXCEPT !.registered_voters = <<>>,
                               !.votes_cast = <<>>,
                               !.vote_counts = [o \in VoteOption |-> 0],
                               !.registration_start_block = 0,
                               !.current_voting_state = "RegistrationOpen"]]

Ink_reset_application(self, caller) ==
    IF caller # self.admin_id
    THEN [res |-> "NotAuthorized", st |-> self]
    ELSE [res |-> "Ok",
          st  |-> [self EXCEPT !.registered_voters = <<>>,
                               !.votes_cast = <<>>,
                               !.vote_counts = [o \in VoteOption |-> 0],
                               !.voting_start_time = 0,
                               !.voting_end_time = 0,
                               !.registration_start_block = 0,
                               !.current_voting_state = "RegistrationOpen"]]

\* a message of the contract: the storage becomes r.st and the call is recorded
InkCall(r, op, caller, duration, option) ==
    /\ ink' = r.st
    /\ ink_last' = Call(op, caller, r.res, duration, option)

InkApply(r, op, caller, duration, option) ==
    /\ InkCall(r, op, caller, duration, option)
    /\ UNCHANGED <<overflow_checks, ink_env, vmVars, draftVars, wishVars>>

InkStartRegistration ==
    \E caller \in Accounts :
        InkApply(Ink_start_registration(ink, caller, ink_env),
                 "start_registration", caller, 0, "-")

InkRegisterVoter ==
    \E caller \in Accounts :
        InkApply(Ink_register_voter(ink, caller), "register_voter", caller, 0, "-")

InkStartVoting ==
    \E caller \in Accounts, d \in Durations :
        InkApply(Ink_start_voting(ink, caller, d, ink_env, overflow_checks),
                 "start_voting", caller, d, "-")

InkCastVote ==
    \E caller \in Accounts, o \in VoteOption :
        InkApply(Ink_cast_vote(ink, caller, o, ink_env), "cast_vote", caller, 0, o)

InkEndVoting ==
    \E caller \in Accounts :
        InkApply(Ink_end_voting(ink, caller, ink_env), "end_voting", caller, 0, "-")

InkResetApplication ==
    \E caller \in Accounts :
        InkApply(Ink_reset_application(ink, caller), "reset_application", caller, 0, "-")

\* the chain produces the next block; its timestamp is one unit later
InkAdvanceBlock ==
    /\ ink_env.block_timestamp + 1 < TimeMod
    /\ ink_env' = [block_number    |-> ink_env.block_number + 1,
                   block_timestamp |-> ink_env.block_timestamp + 1]
    /\ ink_last' = NoCall
    /\ UNCHANGED <<overflow_checks, ink, vmVars, draftVars, wishVars>>

\* the admin's end_voting at a time when it succeeds
InkFinalize ==
    /\ Ink_end_voting(ink, ink.admin_id, ink_env).res = "Ok"
    /\ InkApply(Ink_end_voting(ink, ink.admin_id, ink_env),
                "end_voting", ink.admin_id, 0, "-")

\* start_registration and reset_application are called between elections
\* only: none of them while the phase is VotingActive
InkRestartBetweenElections ==
    /\ ink.current_voting_state # "VotingActive"
    /\ \/ InkStartRegistration
       \/ InkResetApplication

\* the contract's calls when a running election is left to run to its end
InkLiveNext ==
    \/ InkRestartBetweenElections
    \/ InkRegisterVoter
    \/ InkStartVoting
    \/ InkCastVote
    \/ InkEndVoting
    \/ InkAdvanceBlock

InkNext ==
    \/ InkStartRegistration
    \/ InkRegisterVoter
    \/ InkStartVoting
    \/ InkCastVote
    \/ InkEndVoting
    \/ InkResetApplication
    \/ InkAdvanceBlock

(***************************************************************************)
(* The struct draft: VotingMachine (src/main.rs).  The file has naming     *)
(* typos (slef, self.is, Hashmap, VotingState::InvalidState); they are     *)
(* read as the names they misspell (self, self.is_admin, HashMap,          *)
(* VotingError::InvalidState).                                             *)
(***************************************************************************)
VMCallers == {"admin", "voter1", "voter2"}

VMOptions == {"option_A", "option_B", "option_C"}

\* what a caller may pass as vote_option: &str is open-ended
VMOptionInputs == VMOptions \cup {"invalid_option"}

\* Option<u64>
None    == <<>>
Some(x) == <<x>>

VM_new(admin_id) ==
    [ current_voting_state |-> "RegistrationOpen",
      registered_voters    |-> {},
      votes_cast           |-> {},
      vote_counts          |-> [o \in VMOptions |-> 0],
      voting_start_time    |-> None,
      voting_end_time      |-> None,
      admin_id             |-> admin_id ]

VM_is_admin(self, caller_id) == caller_id = self.admin_id

\* VM_is_voting_period_active with the end of the window excluded
VM_is_voting_period_active_Exclusive(self, current_time) ==
    IF self.voting_start_time # None /\ self.voting_end_time # None
    THEN /\ current_time >= self.voting_start_time[1]
         /\ current_time < self.voting_end_time[1]
    ELSE FALSE

VM_is_voting_period_active(self, current_time) ==
    IF self.voting_start_time # None /\ self.voting_end_time # None
    THEN /\ current_time >= self.voting_start_time[1]
         /\ current_time <= self.voting_end_time[1]
    ELSE FALSE

\* VM_start_registration refusing a machine that is already in RegistrationOpen
VM_start_registration_RejectsOpen(self, caller_id) ==
    IF ~VM_is_admin(self, caller_id)
    THEN [res |-> "Unauthorized", st |-> self]
    ELSE IF self.current_voting_state = "RegistrationOpen"
    THEN [res |-> "InvalidState", st |-> self]
    ELSE [res |-> "Ok",
          st  |-> [self EXCEPT !.current_voting_state = "RegistrationOpen",
                               !.registered_voters = {},
                               !.votes_cast = {},
                               !.vote_counts = [o \in VMOptions |-> 0],
                               !.voting_start_time = None,
                               !.voting_end_time = None]]

VM_start_registration(self, caller_id) ==
    IF ~VM_is_admin(self, caller_id)
    THEN [res |-> "Unauthorized", st |-> self]
    ELSE [res |-> "Ok",
          st  |-> [self EXCEPT !.current_voting_state = "RegistrationOpen",
                               !.registered_voters = {},
                               !.votes_cast = {},
                               !.vote_counts = [o \in VMOptions |-> 0],
                               !.voting_start_time = None,
                               !.voting_end_time = None]]

\* VM_register_voter without the test that the phase is RegistrationOpen
VM_register_voter_AnyPhase(self, caller_id) ==
    IF caller_id \in self.registered_voters
    THEN [res |-> "VoterAlreadyRegistered", st |-> self]
    ELSE [res |-> "Ok",
          st  |-> [self EXCEPT !.registered_voters = @ \cup {caller_id}]]

VM_register_voter(self, caller_id) ==
    IF self.current_voting_state # "RegistrationOpen"
    THEN [res |-> "InvalidState", st |-> self]
    ELSE IF caller_id \in self.registered_voters
    THEN [res |-> "VoterAlreadyRegistered", st |-> self]
    ELSE [res |-> "Ok",
          st  |-> [self EXCEPT !.registered_voters = @ \cup {caller_id}]]

\* current_time + duration_in_seconds on u64: with overflow checks the
\* addition panics after the state and the start time were already written;
\* without, it wraps.
VM_start_voting(self, caller_id, duration_in_seconds, current_time, checks) ==
    IF ~VM_is_admin(self, caller_id)
    THEN [res |-> "Unauthorized", st |-> self]
    ELSE IF self.current_voting_state # "RegistrationOpen"
    THEN [res |-> "InvalidState", st |-> self]
    ELSE IF duration_in_seconds = 0
    THEN [res |-> "InvalidDuration", st |-> self]
    ELSE IF checks /\ current_time + duration_in_seconds >= TimeMod
    THEN [res |-> "Panic",
          st  |-> [self EXCEPT !.current_voting_state = "VotingActive",
                               !.voting_start_time = Some(current_time)]]
    ELSE [res |-> "Ok",
          st  |-> [self EXCEPT !.current_voting_state = "VotingActive",
                               !.voting_start_time = Some(current_time),
                               !.voting_end_time =
                                   Some((current_time + duration_in_seconds) % TimeMod)]]

\* VM_cast_vote with the membership test on registered_voters left out
VM_cast_vote_NoRollCheck(self, caller_id, vote_option, current_time) ==
    IF self.current_voting_state # "VotingActive"
    THEN [res |-> "VotingNotActive", st |-> self]
    ELSE IF caller_id \in self.votes_cast
    THEN [res |-> "VoterAlreadyVoted", st |-> self]
    ELSE IF ~VM_is_voting_period_active(self, current_time)
    THEN [res |-> "VotingPeriodExpired", st |-> self]
    ELSE IF vote_option \notin DOMAIN self.vote_counts
    THEN [res |-> "InvalidVoteOption", st |-> self]
    ELSE [res |-> "Ok",
          st  |-> [self EXCEPT !.votes_cast = @ \cup {caller_id},
                               !.vote_counts[vote_option] = @ + 1]]

\* VM_cast_vote with the caller recorded in votes_cast before the option is checked
VM_cast_vote_EarlyInsert(self, caller_id, vote_option, current_time) ==
    IF self.current_voting_state # "VotingActive"
    THEN [res |-> "VotingNotActive", st |-> self]
    ELSE IF caller_id \notin self.registered_voters
    THEN [res |-> "VoterNotRegistered", st |-> self]
    ELSE IF caller_id \in self.votes_cast
    THEN [res |-> "VoterAlreadyVoted", st |-> self]
    ELSE IF ~VM_is_voting_period_active(self, current_time)
    THEN [res |-> "VotingPeriodExpired", st |-> self]
    ELSE IF vote_option \notin DOMAIN self.vote_counts
    THEN [res |-> "InvalidVoteOption",
          st  |-> [self EXCEPT !.votes_cast = @ \cup {caller_id}]]
    ELSE [res |-> "Ok",
          st  |-> [self EXCEPT !.votes_cast = @ \cup {caller_id},
                               !.vote_counts[vote_option] = @ + 1]]

\* VM_cast_vote that counts the vote without recording the caller in votes_cast
VM_cast_vote_NoRecord(self, caller_id, vote_option, current_time) ==
    IF self.current_voting_state # "VotingActive"
    THEN [res |-> "VotingNotActive", st |-> self]
    ELSE IF caller_id \notin self.registered_voters
    THEN [res |-> "VoterNotRegistered", st |-> self]
    ELSE IF caller_id \in self.votes_cast
    THEN [res |-> "VoterAlreadyVoted", st |-> self]
    ELSE IF ~VM_is_voting_period_active(self, current_time)
    THEN [res |-> "VotingPeriodExpired", st |-> self]
    ELSE IF vote_option \notin DOMAIN self.vote_counts
    THEN [res |-> "InvalidVoteOption", st |-> self]
    ELSE [res |-> "Ok",
          st  |-> [self EXCEPT !.vote_counts[vote_option] = @ + 1]]

VM_cast_vote(self, caller_id, vote_option, current_time) ==
    IF self.current_voting_state # "VotingActive"
    THEN [res |-> "VotingNotActive", st |-> self]
    ELSE IF caller_id \notin self.registered_voters
    THEN [res |-> "VoterNotRegistered", st |-> self]
    ELSE IF caller_id \in self.votes_cast
    THEN [res |-> "VoterAlreadyVoted", st |-> self]
    ELSE IF ~VM_is_voting_period_active(self, current_time)
    THEN [res |-> "VotingPeriodExpired", st |-> self]
    ELSE IF vote_option \notin DOMAIN self.vote_counts
    THEN [res |-> "InvalidVoteOption", st |-> self]
    ELSE [res |-> "Ok",
          st  |-> [self EXCEPT !.votes_cast = @ \cup {caller_id},
                               !.vote_counts[vote_option] = @ + 1]]

VM_end_voting(self, caller_id, current_time) ==
    IF ~VM_is_admin(self, caller_id)
    THEN [res |-> "Unauthorized", st |-> self]
    ELSE IF self.current_voting_state # "VotingActive"
    THEN [res |-> "InvalidState", st |-> self]
    ELSE IF VM_is_voting_period_active(self, current_time)
    THEN [res |-> "VotingPeriodNotExpired", st |-> self]
    ELSE [res |-> "Ok",
          st  |-> [self EXCEPT !.current_voting_state = "ResultsFinalized"]]

VM_reset_application(self, caller_id) ==
    IF ~VM_is_admin(self, caller_id)
    THEN [res |-> "Unauthorized", st |-> self]
    ELSE [res |-> "Ok",
          st  |-> [self EXCEPT !.current_voting_state = "RegistrationOpen",
                               !.registered_voters = {},
                               !.votes_cast = {},
                               !.vote_counts = [o \in VMOptions |-> 0],
                               !.voting_start_time = None,
                               !.voting_end_time = None]]

\* VM_get_results handing out the counts in every phase
VM_get_results_AnyPhase(self) == Some(self.vote_counts)

VM_get_results(self) ==
    IF self.current_voting_state = "ResultsFinalized"
    THEN Some(self.vote_counts)
    ELSE None

VM_get_registered_voter_count(self) == Cardinality(self.registered_voters)

VM_get_votes_cast_count(self) == Cardinality(self.votes_cast)

\* a call of a method: the fields become r.st and the call is recorded; a
\* panic ends the program, so no call follows one
VMCall(r, op, caller, duration, option) ==
    /\ vm_last.res # "Panic"
    /\ vm' = r.st
    /\ vm_last' = Call(op, caller, r.res, duration, option)

VMApply(r, op, caller, duration, option) ==
    /\ VMCall(r, op, caller, duration, option)
    /\ UNCHANGED <<overflow_checks, vm_now, inkVars, draftVars, wishVars>>

VMStartRegistration ==
    \E caller \in VMCallers :
        VMApply(VM_start_registration(vm, caller), "start_registration", caller, 0, "-")

VMRegisterVoter ==
    \E caller \in VMCallers :
        VMApply(VM_register_voter(vm, caller), "register_voter", caller, 0, "-")

VMStartVoting ==
    \E caller \in VMCallers, d \in Durations :
        VMApply(VM_start_voting(vm, caller, d, vm_now, overflow_checks),
                "start_voting", caller, d, "-")

VMCastVote ==
    \E caller \in VMCallers, o \in VMOptionInputs :
        VMApply(VM_cast_vote(vm, caller, o, vm_now), "cast_vote", caller, 0, o)

VMEndVoting ==
    \E caller \in VMCallers :
        VMApply(VM_end_voting(vm, caller, vm_now), "end_voting", caller, 0, "-")

VMResetApplication ==
    \E caller \in VMCallers :
        VMApply(VM_reset_application(vm, caller), "reset_application", caller, 0, "-")

\* get_results takes &self: the fields stay as they are; the call records
\* whether it returned Some(..) or None
VMGetResults ==
    VMApply([res |-> IF VM_get_results(vm) = None THEN "None" ELSE "Some",
             st  |-> vm],
            "get_results", "-", 0, "-")

\* the system clock moves on by one second
VMTick ==
    /\ vm_last.res # "Panic"
    /\ vm_now + 1 < TimeMod
    /\ vm_now' = vm_now + 1
    /\ vm_last' = NoCall
    /\ UNCHANGED <<overflow_checks, vm, inkVars, draftVars, wishVars>>

VMNext ==
    \/ VMStartRegistration
    \/ VMRegisterVoter
    \/ VMStartVoting
    \/ VMCastVote
    \/ VMEndVoting
    \/ VMResetApplication
    \/ VMGetResults
    \/ VMTick

(***************************************************************************)
(* The free-function draft: VotingState and its six functions              *)
(* (src/lib.rs).  The struct has public fields and no constructor: a       *)
(* program builds it with a struct literal, as the tests of the file do.   *)
(***************************************************************************)
DraftCallers == {"admin123", "voter1"}

DraftOptions == {"option_A", "option_B"}

\* what a caller may pass as vote_option: &str is open-ended
DraftOptionInputs == DraftOptions \cup {"invalid_option"}

\* std::collections::HashMap::new()
EmptyMap == [o \in {} |-> 0]

\* duration_in_units * 60 * 60
SecsPerHour == 3600

\* Bounds of the draft's clock: it reads h * 3600 + s seconds for
\* h in 0..MaxHours and s in 0..MaxSecs.
MaxHours == 3
MaxSecs == 1

DraftTimes == { h * SecsPerHour + s : h \in 0..MaxHours, s \in 0..MaxSecs }

\* Draft_start_registration testing the caller before the phase
Draft_start_registration_AdminFirst(voting_state, caller_id) ==
    IF caller_id # voting_state.admin_id
    THEN [res |-> "Only the admin can start registration.", st |-> voting_state]
    ELSE IF voting_state.current_voting_state = "RegistrationOpen"
    THEN [res |-> "Registration is already open.", st |-> voting_state]
    ELSE [res |-> "Ok",
          st  |-> [voting_state EXCEPT !.registered_voters = <<>>,
                                       !.votes_cast = <<>>,
                                       !.vote_counts = EmptyMap,
                                       !.current_voting_state = "RegistrationOpen"]]

Draft_start_registration(voting_state, caller_id) ==
    IF voting_state.current_voting_state = "RegistrationOpen"
    THEN [res |-> "Registration is already open.", st |-> voting_state]
    ELSE IF caller_id # voting_state.admin_id
    THEN [res |-> "Only the admin can start registration.", st |-> voting_state]
    ELSE [res |-> "Ok",
          st  |-> [voting_state EXCEPT !.registered_voters = <<>>,
                                       !.votes_cast = <<>>,
                                       !.vote_counts = EmptyMap,
                                       !.current_voting_state = "RegistrationOpen"]]

Draft_register_voter(voting_state, caller_id) ==
    IF voting_state.current_voting_state # "RegistrationOpen"
    THEN [res |-> "Registration is not open.", st |-> voting_state]
    ELSE IF Contains(voting_state.registered_voters, caller_id)
    THEN [res |-> "Voter is already registered.", st |-> voting_state]
    ELSE [res |-> "Ok",
          st  |-> [voting_state EXCEPT !.registered_voters = Append(@, caller_id)]]

\* assert!(duration_in_units > 0) panics before anything is written
Draft_start_voting(voting_state, caller_id, duration_in_units, current_time) ==
    IF caller_id # voting_state.admin_id
    THEN [res |-> "Only the admin can start voting.", st |-> voting_state]
    ELSE IF voting_state.current_voting_state = "VotingActive"
    THEN [res |-> "Voting is already active.", st |-> voting_state]
    ELSE IF ~(duration_in_units > 0)
    THEN [res |-> "Panic", st |-> voting_state]
    ELSE [res |-> "Ok",
          st  |-> [voting_state EXCEPT
                     !.current_voting_state = "VotingActive",
                     !.voting_start_time = current_time,
                     !.voting_end_time =
                         current_time + duration_in_units * SecsPerHour]]

\* Draft_cast_vote with the test on votes_cast left out
Draft_cast_vote_NoVotedCheck(voting_state, caller_id, vote_option, current_time) ==
    IF voting_state.current_voting_state # "VotingActive"
    THEN [res |-> "Voting is not active.", st |-> voting_state]
    ELSE IF ~Contains(voting_state.registered_voters, caller_id)
    THEN [res |-> "Caller is not a registered voter.", st |-> voting_state]
    ELSE IF current_time < voting_state.voting_start_time
            \/ current_time > voting_state.voting_end_time
    THEN [res |-> "Voting is not within the active period.", st |-> voting_state]
    ELSE IF vote_option \notin DOMAIN voting_state.vote_counts
    THEN [res |-> "Invalid vote option.", st |-> voting_state]
    ELSE [res |-> "Ok",
          st  |-> [voting_state EXCEPT !.votes_cast = Append(@, caller_id),
                                       !.vote_counts[vote_option] = @ + 1]]

Draft_cast_vote(voting_state, caller_id, vote_option, current_time) ==
    IF voting_state.current_voting_state # "VotingActive"
    THEN [res |-> "Voting is not active.", st |-> voting_state]
    ELSE IF ~Contains(voting_state.registered_voters, caller_id)
    THEN [res |-> "Caller is not a registered voter.", st |-> voting_state]
    ELSE IF Contains(voting_state.votes_cast, caller_id)
    THEN [res |-> "Caller has already voted.", st |-> voting_state]
    ELSE IF current_time < voting_state.voting_start_time
            \/ current_time > voting_state.voting_end_time
    THEN [res |-> "Voting is not within the active period.", st |-> voting_state]
    ELSE IF vote_option \notin DOMAIN voting_state.vote_counts
    THEN [res |-> "Invalid vote option.", st |-> voting_state]
    ELSE [res |-> "Ok",
          st  |-> [voting_state EXCEPT !.votes_cast = Append(@, caller_id),
                                       !.vote_counts[vote_option] = @ + 1]]

Draft_end_voting(voting_state, caller_id, current_time) ==
    IF caller_id # voting_state.admin_id
    THEN [res |-> "Only the admin can end voting.", st |-> voting_state]
    ELSE IF voting_state.current_voting_state # "VotingActive"
    THEN [res |-> "Voting is not active.", st |-> voting_state]
    ELSE IF current_time < voting_state.voting_end_time
    THEN [res |-> "Voting period is still active.", st |-> voting_state]
    ELSE [res |-> "Ok",
          st  |-> [voting_state EXCEPT !.current_voting_state = "ResultsFinalized"]]

\* Draft_reset_application setting every option's count to zero instead of
\* clearing the map
Draft_reset_application_KeepsOptions(voting_state, caller_id) ==
    IF caller_id # voting_state.admin_id
    THEN [res |-> "Only the admin can reset the application.", st |-> voting_state]
    ELSE [res |-> "Ok",
          st  |-> [voting_state EXCEPT !.current_voting_state = "RegistrationOpen",
                                       !.registered_voters = <<>>,
                                       !.votes_cast = <<>>,
                                       !.vote_counts =
                                           [o \in DOMAIN voting_state.vote_counts |-> 0],
                                       !.voting_start_time = 0,
                                       !.voting_end_time = 0]]

Draft_reset_application(voting_state, caller_id) ==
    IF caller_id # voting_state.admin_id
    THEN [res |-> "Only the admin can reset the application.", st |-> voting_state]
    ELSE [res |-> "Ok",
          st  |-> [voting_state EXCEPT !.current_voting_state = "RegistrationOpen",
                                       !.registered_voters = <<>>,
                                       !.votes_cast = <<>>,
                                       !.vote_counts = EmptyMap,
                                       !.voting_start_time = 0,
                                       !.voting_end_time = 0]]

\* the struct literals of the tests: the phase is RegistrationClosed,
\* RegistrationOpen or VotingActive, the roll is empty or holds voter1, the
\* tally is empty or holds option_A and option_B at 0, the window is 0..0 or
\* one hour starting now
DraftFixtures ==
    { [ current_voting_state |-> p,
        registered_voters    |-> r,
        votes_cast           |-> <<>>,
        vote_counts          |-> c,
        voting_start_time    |-> w[1],
        voting_end_time      |-> w[2],
        admin_id             |-> "admin123" ] :
      p \in {"RegistrationClosed", "RegistrationOpen", "VotingActive"},
      r \in {<<>>, <<"voter1">>},
      c \in {EmptyMap, [o \in DraftOptions |-> 0]},
      w \in {<<0, 0>>, <<0, SecsPerHour>>} }

\* a call of a function: the struct becomes r.st and the call is recorded; a
\* panic ends the program, so no call follows one
DraftApply(r, op, caller, duration, option) ==
    /\ draft_last.res # "Panic"
    /\ draft' = r.st
    /\ draft_last' = Call(op, caller, r.res, duration, option)
    /\ UNCHANGED <<overflow_checks, draft_now, inkVars, vmVars, wishVars>>

DraftStartRegistration ==
    \E caller \in DraftCallers :
        DraftApply(Draft_start_registration(draft, caller),
                   "start_registration", caller, 0, "-")

DraftRegisterVoter ==
    \E caller \in DraftCallers :
        DraftApply(Draft_register_voter(draft, caller), "register_voter", caller, 0, "-")

DraftStartVoting ==
    \E caller \in DraftCallers, d \in Durations :
        DraftApply(Draft_start_voting(draft, caller, d, draft_now),
                   "start_voting", caller, d, "-")

DraftCastVote ==
    \E caller \in DraftCallers, o \in DraftOptionInputs :
        DraftApply(Draft_cast_vote(draft, caller, o, draft_now), "cast_vote", caller, 0, o)

DraftEndVoting ==
    \E caller \in DraftCallers :
        DraftApply(Draft_end_voting(draft, caller, draft_now), "end_voting", caller, 0, "-")

DraftResetApplication ==
    \E caller \in DraftCallers :
        DraftApply(Draft_reset_application(draft, caller),
                   "reset_application", caller, 0, "-")

\* the system clock moves on, by a second or by an hour
DraftTick ==
    /\ draft_last.res # "Panic"
    /\ \E step \in {1, SecsPerHour} :
          /\ draft_now + step \in DraftTimes
          /\ draft_now' = draft_now + step
    /\ draft_last' = NoCall
    /\ UNCHANGED <<overflow_checks, draft, inkVars, vmVars, wishVars>>

DraftNext ==
    \/ DraftStartRegistration
    \/ DraftRegisterVoter
    \/ DraftStartVoting
    \/ DraftCastVote
    \/ DraftEndVoting
    \/ DraftResetApplication
    \/ DraftTick

(***************************************************************************)
(* The contract and the struct side by side: the same calls are made to    *)
(* both, by corresponding callers with corresponding options, at the same  *)
(* clock time.                                                             *)
(***************************************************************************)
\* the caller of the struct that stands for an account of the contract
VMCallerOf(account) == IF account = "alice" THEN "admin" ELSE "voter1"

\* the option string of the struct that stands for a VoteOption of the contract
VMOptionOf(option) == IF option = "OptionA" THEN "option_A" ELSE "option_B"

BothFrame == UNCHANGED <<overflow_checks, ink_env, vm_now, draftVars, wishVars>>

BothStartRegistration ==
    \E caller \in Accounts :
        /\ InkCall(Ink_start_registration(ink, caller, ink_env),
                   "start_registration", caller, 0, "-")
        /\ VMCall(VM_start_registration(vm, VMCallerOf(caller)),
                  "start_registration", VMCallerOf(caller), 0, "-")
        /\ BothFrame

BothRegisterVoter ==
    \E caller \in Accounts :
        /\ InkCall(Ink_register_voter(ink, caller), "register_voter", caller, 0, "-")
        /\ VMCall(VM_register_voter(vm, VMCallerOf(caller)),
                  "register_voter", VMCallerOf(caller), 0, "-")
        /\ BothFrame

BothStartVoting ==
    \E caller \in Accounts, d \in Durations :
        /\ InkCall(Ink_start_voting(ink, caller, d, ink_env, overflow_checks),
                   "start_voting", caller, d, "-")
        /\ VMCall(VM_start_voting(vm, VMCallerOf(caller), d, vm_now, overflow_checks),
                  "start_voting", VMCallerOf(caller), d, "-")
        /\ BothFrame

BothCastVote ==
    \E caller \in Accounts, o \in VoteOption :
        /\ InkCall(Ink_cast_vote(ink, caller, o, ink_env), "cast_vote", caller, 0, o)
        /\ VMCall(VM_cast_vote(vm, VMCallerOf(caller), VMOptionOf(o), vm_now),
                  "cast_vote", VMCallerOf(caller), 0, VMOptionOf(o))
        /\ BothFrame

BothEndVoting ==
    \E caller \in Accounts :
        /\ InkCall(Ink_end_voting(ink, caller, ink_env), "end_voting", caller, 0, "-")
        /\ VMCall(VM_end_voting(vm, VMCallerOf(caller), vm_now),
                  "end_voting", VMCallerOf(caller), 0, "-")
        /\ BothFrame

BothResetApplication ==
    \E caller \in Accounts :
        /\ InkCall(Ink_reset_application(ink, caller), "reset_application", caller, 0, "-")
        /\ VMCall(VM_reset_application(vm, VMCallerOf(caller)),
                  "reset_application", VMCallerOf(caller), 0, "-")
        /\ BothFrame

\* one unit of time passes on the chain and on the system clock
BothTick ==
    /\ vm_last.res # "Panic"
    /\ ink_env.block_timestamp + 1 < TimeMod
    /\ ink_env' = [block_number    |-> ink_env.block_number + 1,
                   block_timestamp |-> ink_env.block_timestamp + 1]
    /\ vm_now' = vm_now + 1
    /\ ink_last' = NoCall
    /\ vm_last' = NoCall
    /\ UNCHANGED <<overflow_checks, ink, vm, draftVars, wishVars>>

BothNext ==
    \/ BothStartRegistration
    \/ BothRegisterVoter
    \/ BothStartVoting
    \/ BothCastVote
    \/ BothEndVoting
    \/ BothResetApplication
    \/ BothTick

(***************************************************************************)
(* The ink! Wishlist contract (2-ink-intro).                               *)
(***************************************************************************)
\* Largest number of items the model lets the list grow to.
MaxItems == 3

\* the strings passed to add_item: the empty string and two items
WishItems == {"", "Item 1", "Item 2"}

\* String::is_empty
IsEmpty(item) == item = ""

Wish_new(deployer) ==
    [ owner |-> deployer,
      items |-> <<>> ]

\* Wish_add_item without the test that the caller is the owner
Wish_add_item_NoOwnerCheck(self, caller, item) ==
    IF IsEmpty(item)
    THEN [res |-> "EmptyItem", st |-> self]
    ELSE [res |-> "Ok", st |-> [self EXCEPT !.items = Append(@, item)]]

\* Wish_add_item putting the new item in front of the others
Wish_add_item_Prepends(self, caller, item) ==
    IF caller # self.owner
    THEN [res |-> "NotOwner", st |-> self]
    ELSE IF IsEmpty(item)
    THEN [res |-> "EmptyItem", st |-> self]
    ELSE [res |-> "Ok", st |-> [self EXCEPT !.items = <<item>> \o @]]

Wish_add_item(self, caller, item) ==
    IF caller # self.owner
    THEN [res |-> "NotOwner", st |-> self]
    ELSE IF IsEmpty(item)
    THEN [res |-> "EmptyItem", st |-> self]
    ELSE [res |-> "Ok", st |-> [self EXCEPT !.items = Append(@, item)]]

\* items.iter().cloned().collect(): a new vector with a copy of each item,
\* in storage order
Wish_get_items(self) == [i \in 1..Len(self.items) |-> self.items[i]]

Wish_get_owner(self) == self.owner

\* items.len() is already a u32
Wish_get_item_count(self) == Len(self.items)

WishNoCall == [op |-> "none", caller |-> "-", item |-> "-", res |-> "-"]

\* res is what the message returned: a result for add_item, the value of
\* the query otherwise
WishCall(op, caller, item, res) ==
    [op |-> op, caller |-> caller, item |-> item, res |-> res]

\* a query takes &self: storage and the record of successful adds stay
WishQuery(op, caller, res) ==
    /\ wish_last' = WishCall(op, caller, "-", res)
    /\ UNCHANGED <<overflow_checks, wish, wish_added, inkVars, vmVars, draftVars>>

WishAddItem ==
    \E caller \in Accounts, item \in WishItems :
        LET r == Wish_add_item(wish, caller, item)
        IN  /\ r.res = "Ok" => Len(wish.items) < MaxItems
            /\ wish' = r.st
            /\ wish_last' = WishCall("add_item", caller, item, r.res)
            /\ wish_added' = IF r.res = "Ok" THEN Append(wish_added, item)
                                             ELSE wish_added
            /\ UNCHANGED <<overflow_checks, inkVars, vmVars, draftVars>>

WishGetItems ==
    \E caller \in Accounts : WishQuery("get_items", caller, Wish_get_items(wish))

WishGetOwner ==
    \E caller \in Accounts : WishQuery("get_owner", caller, Wish_get_owner(wish))

WishGetItemCount ==
    \E caller \in Accounts :
        WishQuery("get_item_count", caller, Wish_get_item_count(wish))

WishNext ==
    \/ WishAddItem
    \/ WishGetItems
    \/ WishGetOwner
    \/ WishGetItemCount

(***************************************************************************)

(* Specifications: one per draft, and one for the contract and the struct  *)
(* side by side.  The drafts share no state, so each is run on its own     *)
(* while the others rest in an initial state.                              *)
(***************************************************************************)
\* the chain environment at deployment
GenesisEnv == [block_number |-> 0, block_timestamp |-> 0]

\* the struct literal of tests::test_register_voter
DraftAtRest ==
    [ current_voting_state |-> "RegistrationOpen",
      registered_voters    |-> <<>>,
      votes_cast           |-> <<>>,
      vote_counts          |-> EmptyMap,
      voting_start_time    |-> 0,
      voting_end_time      |-> 0,
      admin_id             |-> "admin123" ]

\* alice has deployed the contract
InitInk ==
    /\ overflow_checks \in BOOLEAN
    /\ ink = Ink_new("alice")
    /\ ink_env = GenesisEnv
    /\ ink_last = NoCall
    /\ vm = VM_new("admin")
    /\ vm_now = 0
    /\ vm_last = NoCall
    /\ draft = DraftAtRest
    /\ draft_now = 0
    /\ draft_last = NoCall
    /\ wish = Wish_new("alice")
    /\ wish_last = WishNoCall
    /\ wish_added = <<>>

SpecInk == InitInk /\ [][InkNext]_vars

\* the VotingMachine has been built with admin_id "admin"
InitVM ==
    /\ overflow_checks \in BOOLEAN
    /\ ink = Ink_new("alice")
    /\ ink_env = GenesisEnv
    /\ ink_last = NoCall
    /\ vm = VM_new("admin")
    /\ vm_now = 0
    /\ vm_last = NoCall
    /\ draft = DraftAtRest
    /\ draft_now = 0
    /\ draft_last = NoCall
    /\ wish = Wish_new("alice")
    /\ wish_last = WishNoCall
    /\ wish_added = <<>>

\* the contract with a clock that keeps moving and an admin who does not
\* leave end_voting uncalled for ever once it would succeed
SpecInkLive ==
    /\ InitInk
    /\ [][InkLiveNext]_vars
    /\ WF_vars(InkAdvanceBlock)
    /\ WF_vars(InkFinalize)

SpecVM == InitVM /\ [][VMNext]_vars

\* the VotingState has been built with one of the struct literals
InitDraft ==
    /\ overflow_checks = TRUE
    /\ ink = Ink_new("alice")
    /\ ink_env = GenesisEnv
    /\ ink_last = NoCall
    /\ vm = VM_new("admin")
    /\ vm_now = 0
    /\ vm_last = NoCall
    /\ draft \in DraftFixtures
    /\ draft_now = 0
    /\ draft_last = NoCall
    /\ wish = Wish_new("alice")
    /\ wish_last = WishNoCall
    /\ wish_added = <<>>

SpecDraft == InitDraft /\ [][DraftNext]_vars

\* the contract is deployed and the VotingMachine built at the same time
InitInkVM ==
    /\ overflow_checks \in BOOLEAN
    /\ ink = Ink_new("alice")
    /\ ink_env = GenesisEnv
    /\ ink_last = NoCall
    /\ vm = VM_new("admin")
    /\ vm_now = 0
    /\ vm_last = NoCall
    /\ draft = DraftAtRest
    /\ draft_now = 0
    /\ draft_last = NoCall
    /\ wish = Wish_new("alice")
    /\ wish_last = WishNoCall
    /\ wish_added = <<>>

SpecInkVM == InitInkVM /\ [][BothNext]_vars

\* alice has deployed the Wishlist
InitWish ==
    /\ overflow_checks = TRUE
    /\ ink = Ink_new("alice")
    /\ ink_env = GenesisEnv
    /\ ink_last = NoCall
    /\ vm = VM_new("admin")
    /\ vm_now = 0
    /\ vm_last = NoCall
    /\ draft = DraftAtRest
    /\ draft_now = 0
    /\ draft_last = NoCall
    /\ wish = Wish_new("alice")
    /\ wish_last = WishNoCall
    /\ wish_added = <<>>

SpecWish == InitWish /\ [][WishNext]_vars

(***************************************************************************)
(* Properties.                                                             *)
(***************************************************************************)
InkAdminOps == {"start_registration", "start_voting", "end_voting", "reset_application"}

\* the environment of the contract with the block timestamp set to t
EnvAt(t) == [ink_env EXCEPT !.block_timestamp = t]

\* C1 (SpecInk): in every reachable state of the contract the two vote
\* counts add up to the number of entries of votes_cast.
C1_TallyEqualsVotesCast ==
    Ink_get_vote_count(ink, "OptionA") + Ink_get_vote_count(ink, "OptionB")
        = Len(ink.votes_cast)

\* two votes were cast, the second one just now
C1_Witness ==
    /\ ink_last.op = "cast_vote"
    /\ ink_last.res = "Ok"
    /\ Len(ink.votes_cast) = 2

\* C2 (SpecVM): in every reachable state of the VotingMachine every identity
\* in votes_cast is in registered_voters.
C2_VotesCastSubsetOfRegistered ==
    vm.votes_cast \subseteq vm.registered_voters

\* a registered voter has just voted
C2_Witness ==
    /\ vm_last.op = "cast_vote"
    /\ vm_last.res = "Ok"
    /\ vm_last.caller \in vm.votes_cast

\* C3 (SpecInk): whenever the contract is in RegistrationOpen the voting
\* window is absent (both times 0), both vote counts are 0 and votes_cast is
\* empty.
C3_RegistrationOpenIsClean ==
    ink.current_voting_state = "RegistrationOpen" =>
        /\ ink.voting_start_time = 0
        /\ ink.voting_end_time = 0
        /\ \A o \in VoteOption : Ink_get_vote_count(ink, o) = 0
        /\ ink.votes_cast = <<>>

\* C4 (SpecInk): every call of start_registration, start_voting, end_voting
\* or reset_application by a caller other than admin_id returns
\* Err(NotAuthorized) and leaves every storage field as it was, in every
\* phase.
C4_NonAdminRejected ==
    [][ (ink_last'.op \in InkAdminOps /\ ink_last'.caller # ink.admin_id)
          => (ink_last'.res = "NotAuthorized" /\ ink' = ink) ]_vars

\* a caller other than the admin has just been refused end_voting while
\* voting was active
C4_Witness ==
    /\ ink_last.op = "end_voting"
    /\ ink_last.caller # ink.admin_id
    /\ ink_last.res = "NotAuthorized"
    /\ ink.current_voting_state = "VotingActive"

DraftAdminError(op) ==
    CASE op = "start_registration" -> "Only the admin can start registration."
      [] op = "start_voting"       -> "Only the admin can start voting."
      [] op = "end_voting"         -> "Only the admin can end voting."
      [] op = "reset_application"  -> "Only the admin can reset the application."

\* C5 (SpecDraft): every call of start_registration, start_voting, end_voting
\* or reset_application with a caller_id other than admin_id returns the
\* function's 'Only the admin can ...' error and leaves the VotingState as it
\* was, in every phase.
C5_DraftNonAdminRejected ==
    [][ (draft_last'.op \in InkAdminOps /\ draft_last'.caller # draft.admin_id)
          => (draft_last'.res = DraftAdminError(draft_last'.op) /\ draft' = draft) ]_vars

\* C6 (SpecVM): every call of the VotingMachine that returns Err leaves all
\* seven fields as they were.
C6_ErrLeavesStateUnchanged ==
    [][ (vm_last'.op # "none" /\ vm_last'.res \notin {"Ok", "Panic"})
          => vm' = vm ]_vars

\* a vote for an option that does not exist has just been refused, after
\* another vote was counted
C6_Witness ==
    /\ vm_last.op = "cast_vote"
    /\ vm_last.res = "InvalidVoteOption"
    /\ vm.votes_cast # {}

\* C7 (SpecInkVM): while voting is active, a registered caller who has not
\* voted and names a valid option is accepted at every time from
\* voting_start_time to voting_end_time, both included, and is refused with
\* the window error, nothing being changed, at voting_end_time + 1 and at
\* every time before voting_start_time; in the contract and in the
\* VotingMachine alike.
C7_WindowIsInclusive ==
    /\ ink.current_voting_state = "VotingActive" =>
         \A c \in Accounts, o \in VoteOption, t \in Times :
           (Ink_is_registered(ink, c) /\ ~Ink_has_voted(ink, c)) =>
             LET r == Ink_cast_vote(ink, c, o, EnvAt(t)) IN
               /\ (ink.voting_start_time <= t /\ t <= ink.voting_end_time)
                    => r.res = "Ok"
               /\ (t = ink.voting_end_time + 1 \/ t < ink.voting_start_time)
                    => (r.res = "VotingPeriodNotActive" /\ r.st = ink)
    /\ (vm.current_voting_state = "VotingActive" /\ vm.voting_end_time # None) =>
         \A c \in VMCallers, o \in VMOptions, t \in Times :
           (c \in vm.registered_voters /\ c \notin vm.votes_cast) =>
             LET r == VM_cast_vote(vm, c, o, t) IN
               /\ (vm.voting_start_time[1] <= t /\ t <= vm.voting_end_time[1])
                    => r.res = "Ok"
               /\ (t = vm.voting_end_time[1] + 1 \/ t < vm.voting_start_time[1])
                    => (r.res = "VotingPeriodExpired" /\ r.st = vm)
    /\ (ink_last.op = "cast_vote" /\ ink_last.res = "VotingPeriodNotActive") =>
         \/ ink_env.block_timestamp < ink.voting_start_time
         \/ ink_env.block_timestamp > ink.voting_end_time
    /\ (vm_last.op = "cast_vote" /\ vm_last.res = "VotingPeriodExpired") =>
         \/ vm_now < vm.voting_start_time[1]
         \/ vm_now > vm.voting_end_time[1]

\* a vote has just been accepted by both at exactly voting_end_time, while
\* another registered voter has not voted yet
C7_Witness ==
    /\ ink_last.op = "cast_vote" /\ ink_last.res = "Ok"
    /\ vm_last.op = "cast_vote" /\ vm_last.res = "Ok"
    /\ ink_env.block_timestamp = ink.voting_end_time
    /\ vm_now = vm.voting_end_time[1]
    /\ ink.voting_start_time < ink.voting_end_time
    /\ Len(ink.registered_voters) > Len(ink.votes_cast)
    /\ vm.registered_voters # vm.votes_cast

\* C8 (SpecVM): end_voting called by the admin while voting is active
\* succeeds and finalizes the results exactly when the current time is at or
\* after voting_end_time; before it, it returns VotingPeriodNotExpired and
\* changes nothing.
C8_EndVotingAtOrAfterEnd ==
    [][ ( /\ vm_last'.op = "end_voting"
          /\ vm_last'.caller = vm.admin_id
          /\ vm.current_voting_state = "VotingActive"
          /\ vm.voting_end_time # None )
          => IF vm_now >= vm.voting_end_time[1]
             THEN /\ vm_last'.res = "Ok"
                  /\ vm'.current_voting_state = "ResultsFinalized"
             ELSE /\ vm_last'.res = "VotingPeriodNotExpired"
                  /\ vm' = vm ]_vars

\* C9 (SpecInk): the contract's phase becomes ResultsFinalized only by an
\* end_voting call of admin_id, made in VotingActive at a block timestamp at
\* or after voting_end_time; and that voting_end_time is the one the last
\* successful start_voting wrote: VotingActive is entered only by a
\* successful start_voting, and voting_end_time does not change while the
\* phase stays VotingActive or moves on to ResultsFinalized.
C9_NoEarlyEnd ==
    [][ /\ ( /\ ink'.current_voting_state = "ResultsFinalized"
             /\ ink.current_voting_state # "ResultsFinalized" )
           => /\ ink_last'.op = "end_voting"
              /\ ink_last'.res = "Ok"
              /\ ink_last'.caller = ink.admin_id
              /\ ink.current_voting_state = "VotingActive"
              /\ ink_env.block_timestamp >= ink.voting_end_time
        /\ ( /\ ink'.current_voting_state = "VotingActive"
             /\ ink.current_voting_state # "VotingActive" )
           => /\ ink_last'.op = "start_voting"
              /\ ink_last'.res = "Ok"
        /\ ( /\ ink.current_voting_state = "VotingActive"
             /\ ink'.current_voting_state \in {"VotingActive", "ResultsFinalized"} )
           => ink'.voting_end_time = ink.voting_end_time ]_vars

\* the admin has just ended a vote whose window was a real interval
C9_Witness ==
    /\ ink_last.op = "end_voting"
    /\ ink_last.res = "Ok"
    /\ ink.current_voting_state = "ResultsFinalized"
    /\ ink.voting_start_time < ink.voting_end_time
    /\ ink.votes_cast # <<>>

\* C10 (SpecDraft): a successful start_voting read at clock time t sets
\* voting_start_time to t, voting_end_time to t + duration_in_units, with no
\* multiplier applied to the duration, and the phase to VotingActive.
C10_DraftWindowIsDuration ==
    (draft_last.op = "start_voting" /\ draft_last.res = "Ok") =>
        /\ draft.voting_start_time = draft_now
        /\ draft.voting_end_time = draft_now + draft_last.duration
        /\ draft.current_voting_state = "VotingActive"

\* C11 (SpecDraft): start_voting called by the admin succeeds only in
\* RegistrationOpen; in every other phase it does not succeed and leaves the
\* VotingState as it was.
C11_DraftStartVotingOnlyFromRegistration ==
    [][ ( /\ draft_last'.op = "start_voting"
          /\ draft_last'.caller = draft.admin_id
          /\ draft.current_voting_state # "RegistrationOpen" )
          => (draft_last'.res # "Ok" /\ draft' = draft) ]_vars

\* C12 (SpecDraft): start_voting called by the admin with duration_in_units
\* 0 returns an error value, does not abort the program, and leaves the
\* VotingState as it was.
C12_DraftZeroDurationIsAnError ==
    [][ ( /\ draft_last'.op = "start_voting"
          /\ draft_last'.caller = draft.admin_id
          /\ draft_last'.duration = 0 )
          => (draft_last'.res \notin {"Ok", "Panic"} /\ draft' = draft) ]_vars

\* C13 (SpecVM): in every reachable state of the VotingMachine
\* voting_start_time and voting_end_time are both None or both Some, they
\* are None exactly in RegistrationOpen, and when they are Some
\* voting_end_time is greater than voting_start_time.
C13_WindowWellFormed ==
    /\ (vm.voting_start_time = None) <=> (vm.voting_end_time = None)
    /\ (vm.voting_start_time = None) <=> (vm.current_voting_state = "RegistrationOpen")
    /\ (vm.voting_start_time # None /\ vm.voting_end_time # None)
         => vm.voting_end_time[1] > vm.voting_start_time[1]

\* no element occurs twice in the vector s
NoDuplicates(s) == \A i, j \in 1..Len(s) : i # j => s[i] # s[j]

\* C14 (SpecInk): in every reachable state of the contract no AccountId
\* occurs twice in registered_voters and none occurs twice in votes_cast.
C14_NoDuplicateVoters ==
    /\ NoDuplicates(ink.registered_voters)
    /\ NoDuplicates(ink.votes_cast)

\* a second registration has just been refused while two accounts are on the roll
C14_Witness ==
    /\ ink_last.op = "register_voter"
    /\ ink_last.res = "AlreadyRegistered"
    /\ Len(ink.registered_voters) = 2

\* C15 (SpecInk): register_voter is open to every caller, the admin
\* included.  In RegistrationOpen a caller not on the roll is accepted and is
\* registered afterwards; a caller already on the roll gets
\* AlreadyRegistered; in every other phase the caller gets
\* InvalidStateTransition; both errors leave the storage as it was.
C15_RegisterVoter ==
    /\ \A c \in Accounts :
         LET r == Ink_register_voter(ink, c) IN
           IF ink.current_voting_state # "RegistrationOpen"
           THEN r.res = "InvalidStateTransition" /\ r.st = ink
           ELSE IF Ink_is_registered(ink, c)
           THEN r.res = "AlreadyRegistered" /\ r.st = ink
           ELSE /\ r.res = "Ok"
                /\ Ink_is_registered(r.st, c)
                /\ r.st.registered_voters = Append(ink.registered_voters, c)
    /\ (ink_last.op = "register_voter" /\ ink_last.res = "Ok")
         => Ink_is_registered(ink, ink_last.caller)
    /\ (ink_last.op = "register_voter" /\ ink_last.res = "AlreadyRegistered")
         => /\ Ink_is_registered(ink, ink_last.caller)
            /\ ink.current_voting_state = "RegistrationOpen"
    /\ (ink_last.op = "register_voter" /\ ink_last.res = "InvalidStateTransition")
         => ink.current_voting_state # "RegistrationOpen"

\* the admin, already registered, has just been refused a second registration
C15_Witness ==
    /\ ink_last.op = "register_voter"
    /\ ink_last.caller = ink.admin_id
    /\ ink_last.res = "AlreadyRegistered"
    /\ Ink_is_registered(ink, ink.admin_id)

\* C16 as claimed (SpecDraft): once a caller's cast_vote has succeeded,
\* every later cast_vote of that caller returns 'Caller has already voted.'
\* and leaves vote_counts and votes_cast as they were, until
\* start_registration or reset_application succeeds (votes_cast holds the
\* callers who voted since then).
C16_AlreadyVotedUntilReset ==
    [][ ( /\ draft_last'.op = "cast_vote"
          /\ Contains(draft.votes_cast, draft_last'.caller) )
          => /\ draft_last'.res = "Caller has already voted."
             /\ draft'.vote_counts = draft.vote_counts
             /\ draft'.votes_cast = draft.votes_cast ]_vars

\* C16 as amended (SpecDraft): once a caller's cast_vote has succeeded, and
\* until start_registration or reset_application succeeds, every cast_vote
\* of that caller, for any option at any time, is refused and changes
\* nothing: with 'Caller has already voted.' while the phase is VotingActive,
\* with 'Voting is not active.' in any other phase; so the caller occurs once
\* in votes_cast.
C16_OneVotePerCaller ==
    /\ \A c \in DraftCallers :
         Contains(draft.votes_cast, c) =>
           \A o \in DraftOptionInputs, t \in DraftTimes :
             LET r == Draft_cast_vote(draft, c, o, t) IN
               /\ r.st = draft
               /\ r.res = IF draft.current_voting_state = "VotingActive"
                          THEN "Caller has already voted."
                          ELSE "Voting is not active."
    /\ NoDuplicates(draft.votes_cast)
    /\ (draft_last.op = "cast_vote" /\ draft_last.res = "Caller has already voted.")
         => Contains(draft.votes_cast, draft_last.caller)

\* a caller who voted for option_A has just been refused a vote for option_B
C16_Witness ==
    /\ draft_last.op = "cast_vote"
    /\ draft_last.res = "Caller has already voted."
    /\ draft_last.option = "option_B"
    /\ Len(draft.votes_cast) = 1
    /\ DOMAIN draft.vote_counts = DraftOptions
    /\ draft.vote_counts["option_A"] = 1

\* the sum of the counts of the map vote_counts
RECURSIVE SumCounts(_)
SumCounts(counts) ==
    IF DOMAIN counts = {}
    THEN 0
    ELSE LET o == CHOOSE x \in DOMAIN counts : TRUE
         IN  counts[o] + SumCounts([x \in DOMAIN counts \ {o} |-> counts[x]])

\* C17 (SpecVM): a successful cast_vote(caller, option) of the VotingMachine
\* adds the caller, who was not in votes_cast, to votes_cast, adds exactly 1
\* to vote_counts[option], and leaves the other counts and every other field
\* as they were; and in every reachable state the counts add up to the size
\* of votes_cast, so neither effect is ever seen without the other.
C17_CastVoteFrame ==
    /\ [](SumCounts(vm.vote_counts) = Cardinality(vm.votes_cast))
    /\ [][ (vm_last'.op = "cast_vote" /\ vm_last'.res = "Ok")
             => /\ vm_last'.caller \notin vm.votes_cast
                /\ vm_last'.option \in DOMAIN vm.vote_counts
                /\ vm' = [vm EXCEPT
                            !.votes_cast = @ \cup {vm_last'.caller},
                            !.vote_counts[vm_last'.option] = @ + 1] ]_vars

\* the second of two voters has just voted, for option_C
C17_Witness ==
    /\ vm_last.op = "cast_vote"
    /\ vm_last.res = "Ok"
    /\ vm_last.option = "option_C"
    /\ Cardinality(vm.votes_cast) = 2
    /\ vm.vote_counts["option_C"] >= 1

\* C18 (SpecInk): a successful end_voting of the contract changes
\* current_voting_state to ResultsFinalized and nothing else:
\* registered_voters, votes_cast, both counts, both times and admin_id are
\* after the call what they were before it.
C18_EndVotingFrame ==
    [][ (ink_last'.op = "end_voting" /\ ink_last'.res = "Ok")
          => /\ ink' = [ink EXCEPT !.current_voting_state = "ResultsFinalized"]
             /\ ink'.registered_voters = ink.registered_voters
             /\ ink'.votes_cast = ink.votes_cast
             /\ ink'.vote_counts = ink.vote_counts
             /\ ink'.voting_start_time = ink.voting_start_time
             /\ ink'.voting_end_time = ink.voting_end_time
             /\ ink'.admin_id = ink.admin_id ]_vars

\* the admin has just finalized a vote in which one of two registered voters
\* voted, for OptionB
C18_Witness ==
    /\ ink_last.op = "end_voting"
    /\ ink_last.res = "Ok"
    /\ ink.current_voting_state = "ResultsFinalized"
    /\ Len(ink.registered_voters) = 2
    /\ Len(ink.votes_cast) = 1
    /\ Ink_get_vote_count(ink, "OptionB") = 1

\* C19 (SpecInk): in every reachable state, whatever the phase,
\* reset_application called by admin_id succeeds and leaves the state new()
\* produces for that admin: RegistrationOpen, no registered voters, no votes
\* cast, both counts 0, both times 0, admin_id unchanged.
C19_ResetRestoresNew ==
    /\ LET r == Ink_reset_application(ink, ink.admin_id) IN
         /\ r.res = "Ok"
         /\ r.st = Ink_new(ink.admin_id)
         /\ r.st.current_voting_state = "RegistrationOpen"
         /\ r.st.registered_voters = <<>> /\ r.st.votes_cast = <<>>
         /\ \A o \in VoteOption : Ink_get_vote_count(r.st, o) = 0
         /\ r.st.voting_start_time = 0 /\ r.st.voting_end_time = 0
    /\ (ink_last.op = "reset_application" /\ ink_last.caller = ink.admin_id)
         => (ink_last.res = "Ok" /\ ink = Ink_new("alice"))

\* the admin has just reset the contract, some blocks after deployment
C19_Witness ==
    /\ ink_last.op = "reset_application"
    /\ ink_last.res = "Ok"
    /\ ink_env.block_number >= 2
    /\ ink = Ink_new("alice")

\* C20 (SpecInk): in every reachable state and for every caller,
\* start_registration and reset_application return the same result and
\* leave the same phase, registered_voters, votes_cast, vote counts,
\* voting_start_time and voting_end_time.
C20_StartRegistrationEqualsReset ==
    \A c \in Accounts :
        LET a == Ink_start_registration(ink, c, ink_env)
            b == Ink_reset_application(ink, c)
        IN  /\ a.res = b.res
            /\ a.st.current_voting_state = b.st.current_voting_state
            /\ a.st.registered_voters = b.st.registered_voters
            /\ a.st.votes_cast = b.st.votes_cast
            /\ a.st.vote_counts = b.st.vote_counts
            /\ a.st.voting_start_time = b.st.voting_start_time
            /\ a.st.voting_end_time = b.st.voting_end_time

\* C21: in the VotingMachine a start_registration by the admin returns Ok in
\* every reachable state, whatever the phase, and is idempotent: a second call
\* right after the first returns Ok again and gives the state the first call
\* gave; a state reached by such a call is a fixed point of the call.
C21_StartRegistrationIdempotent ==
    LET once  == VM_start_registration(vm, vm.admin_id)
        twice == VM_start_registration(once.st, vm.admin_id)
    IN  /\ once.res = "Ok"
        /\ twice.res = "Ok"
        /\ twice.st = once.st
        /\ once.st.current_voting_state = "RegistrationOpen"
        /\ (vm_last.op = "start_registration" /\ vm_last.caller = vm.admin_id
              => vm_last.res = "Ok" /\ once.st = vm)

\* the admin has restarted registration after an election was started
C21_Witness ==
    /\ vm_last.op = "start_registration"
    /\ vm_last.caller = vm.admin_id
    /\ vm_last.res = "Ok"
    /\ vm.current_voting_state = "RegistrationOpen"
    /\ vm_now >= 1

\* C22: in the ink contract a start_registration by the admin while the phase
\* is already RegistrationOpen is rejected with an error and leaves
\* registered_voters as it was.
C22_StartRegistrationRejectedWhenOpen ==
    [][ ( /\ ink.current_voting_state = "RegistrationOpen"
          /\ ink_last'.op = "start_registration"
          /\ ink_last'.caller = ink.admin_id )
        => ( /\ ink_last'.res # "Ok"
             /\ ink'.registered_voters = ink.registered_voters ) ]_vars

\* C23: in the free-function draft a start_registration by any caller while
\* the phase is RegistrationOpen returns 'Registration is already open.' and
\* changes nothing; from RegistrationClosed the admin's call returns Ok, sets
\* RegistrationOpen and empties registered_voters, votes_cast and vote_counts.
C23_DraftStartRegistration ==
    /\ [](\A c \in DraftCallers :
            LET r == Draft_start_registration(draft, c)
            IN  /\ draft.current_voting_state = "RegistrationOpen"
                     => r.res = "Registration is already open." /\ r.st = draft
                /\ ( /\ draft.current_voting_state = "RegistrationClosed"
                     /\ c = draft.admin_id )
                     => /\ r.res = "Ok"
                        /\ r.st.current_voting_state = "RegistrationOpen"
                        /\ r.st.registered_voters = <<>>
                        /\ r.st.votes_cast = <<>>
                        /\ DOMAIN r.st.vote_counts = {})
    /\ [][ draft_last'.op = "start_registration" =>
           /\ draft.current_voting_state = "RegistrationOpen"
                => /\ draft_last'.res = "Registration is already open."
                   /\ draft' = draft
           /\ ( /\ draft.current_voting_state = "RegistrationClosed"
                /\ draft_last'.caller = draft.admin_id )
                => /\ draft_last'.res = "Ok"
                   /\ draft'.current_voting_state = "RegistrationOpen"
                   /\ draft'.registered_voters = <<>>
                   /\ draft'.votes_cast = <<>>
                   /\ DOMAIN draft'.vote_counts = {} ]_vars

\* a caller who is not the admin was told that registration is already open,
\* and the roll is still there
C23_Witness ==
    /\ draft_last.op = "start_registration"
    /\ draft_last.caller # draft.admin_id
    /\ draft_last.res = "Registration is already open."
    /\ draft.current_voting_state = "RegistrationOpen"
    /\ draft.registered_voters # <<>>

\* C24: in the free-function draft no operation adds or removes a vote
\* option: the key set of vote_counts is the same after every step as before
\* it, hence the same as in the initial state.
C24_DraftOptionSetFixed ==
    [][DOMAIN draft'.vote_counts = DOMAIN draft.vote_counts]_vars

\* C25: in the ink contract admin_id is the account that called new() (alice)
\* in every reachable state, and no message by any caller, with any argument,
\* gives a state with another admin_id.
C25_AdminIsDeployer ==
    /\ \A d \in Accounts : Ink_new(d).admin_id = d
    /\ ink.admin_id = "alice"
    /\ \A c \in Accounts :
         /\ Ink_start_registration(ink, c, ink_env).st.admin_id = ink.admin_id
         /\ Ink_register_voter(ink, c).st.admin_id = ink.admin_id
         /\ \A d \in Durations :
              Ink_start_voting(ink, c, d, ink_env, overflow_checks).st.admin_id
                  = ink.admin_id
         /\ \A o \in VoteOption :
              Ink_cast_vote(ink, c, o, ink_env).st.admin_id = ink.admin_id
         /\ Ink_end_voting(ink, c, ink_env).st.admin_id = ink.admin_id
         /\ Ink_reset_application(ink, c).st.admin_id = ink.admin_id

\* the admin has reset a contract that had been through an election
C25_Witness ==
    /\ ink_last.op = "reset_application"
    /\ ink_last.res = "Ok"
    /\ ink_env.block_timestamp >= 1
    /\ ink.admin_id = "alice"

\* C26: in the ink contract every change of the phase is made by a successful
\* call of the admin and follows the diagram: RegistrationOpen to VotingActive
\* by start_voting, VotingActive to ResultsFinalized by end_voting, and any
\* phase to RegistrationOpen by start_registration or reset_application.
C26_PhaseDiagram ==
    [][ ink'.current_voting_state # ink.current_voting_state =>
        /\ ink_last'.res = "Ok"
        /\ ink_last'.caller = ink.admin_id
        /\ \/ /\ ink.current_voting_state = "RegistrationOpen"
              /\ ink'.current_voting_state = "VotingActive"
              /\ ink_last'.op = "start_voting"
           \/ /\ ink.current_voting_state = "VotingActive"
              /\ ink'.current_voting_state = "ResultsFinalized"
              /\ ink_last'.op = "end_voting"
           \/ /\ ink'.current_voting_state = "RegistrationOpen"
              /\ ink_last'.op \in {"start_registration", "reset_application"} ]_vars

\* the contract went from RegistrationOpen over VotingActive to ResultsFinalized
C26_Witness ==
    /\ ink.current_voting_state = "ResultsFinalized"
    /\ ink_last.op = "end_voting"
    /\ ink_last.res = "Ok"
    /\ ink_last.caller = ink.admin_id

\* C27: in the VotingMachine get_results returns Some(vote_counts) exactly
\* when the phase is ResultsFinalized and None in RegistrationOpen and
\* VotingActive, and a call of it leaves every field as it was.
C27_GetResults ==
    /\ [](/\ vm.current_voting_state = "ResultsFinalized"
               => VM_get_results(vm) = Some(vm.vote_counts)
          /\ vm.current_voting_state \in {"RegistrationOpen", "VotingActive"}
               => VM_get_results(vm) = None)
    /\ [][ vm_last'.op = "get_results" =>
           /\ vm' = vm
           /\ vm_last'.res \in {"Some", "None"}
           /\ vm_last'.res = "Some"
                <=> vm.current_voting_state = "ResultsFinalized" ]_vars

\* get_results was asked while votes were being cast and returned None
C27_Witness ==
    /\ vm_last.op = "get_results"
    /\ vm_last.res = "None"
    /\ vm.current_voting_state = "VotingActive"
    /\ vm.votes_cast # {}

\* C28: in the Wishlist add_item by a caller other than the owner returns
\* NotOwner, add_item by the owner with the empty string returns EmptyItem,
\* and both leave items as it was; so in every reachable state get_item_count
\* is the number of add_item calls that returned Ok and the owner is the
\* account that deployed the contract (alice).
C28_WishlistGuards ==
    /\ [](\A c \in Accounts, i \in WishItems :
            LET r == Wish_add_item(wish, c, i)
            IN  /\ c # wish.owner
                     => r.res = "NotOwner" /\ r.st.items = wish.items
                /\ (c = wish.owner /\ i = "")
                     => r.res = "EmptyItem" /\ r.st.items = wish.items)
    /\ [](Wish_get_item_count(wish) = Len(wish_added))
    /\ [](Wish_get_owner(wish) = "alice")
    /\ [][ wish_last'.op = "add_item" =>
           /\ wish_last'.caller # wish.owner => wish_last'.res = "NotOwner"
           /\ (wish_last'.caller = wish.owner /\ wish_last'.item = "")
                => wish_last'.res = "EmptyItem"
           /\ wish_last'.res # "Ok" => wish'.items = wish.items ]_vars

\* bob was refused on a list that already holds an item of alice's
C28_Witness ==
    /\ wish_last.op = "add_item"
    /\ wish_last.caller = "bob"
    /\ wish_last.res = "NotOwner"
    /\ Wish_get_item_count(wish) = 1
    /\ Len(wish_added) = 1

\* C29: in the Wishlist a successful add_item puts the item at the end of
\* items and keeps the earlier items in place, and get_items, by any caller,
\* changes nothing and returns the successfully added items in the order in
\* which they were added.
C29_WishlistOrder ==
    /\ [](Wish_get_items(wish) = wish_added)
    /\ [][ /\ (wish_last'.op = "add_item" /\ wish_last'.res = "Ok")
                => /\ wish'.items = Append(wish.items, wish_last'.item)
                   /\ SubSeq(wish'.items, 1, Len(wish.items)) = wish.items
           /\ wish_last'.op = "get_items"
                => /\ wish' = wish
                   /\ wish_last'.res = wish_added' ]_vars

\* bob reads the two items alice added, in the order she added them
C29_Witness ==
    /\ wish_last.op = "get_items"
    /\ wish_last.caller = "bob"
    /\ wish_last.res = <<"Item 2", "Item 1">>
    /\ wish_added = <<"Item 2", "Item 1">>

\* C30: in the ink contract and in the VotingMachine cast_vote returns the
\* error of the first check that fails, in the order: phase is VotingActive,
\* caller is registered, caller has not voted, the time is inside the window,
\* the option is valid.  An unregistered caller in VotingActive, the admin
\* included, gets the not-registered error at every time and for every option.
C30_CastVoteCheckOrder ==
    /\ \A c \in Accounts, o \in VoteOption, t \in Times :
         LET r      == Ink_cast_vote(ink, c, o, EnvAt(t)).res
             active == ink.current_voting_state = "VotingActive"
             onRoll == Contains(ink.registered_voters, c)
             fresh  == ~Contains(ink.votes_cast, c)
             inside == ink.voting_start_time <= t /\ t <= ink.voting_end_time
         IN  /\ ~active => r = "InvalidStateTransition"
             /\ (active /\ ~onRoll) => r = "NotRegistered"
             /\ (active /\ onRoll /\ ~fresh) => r = "AlreadyVoted"
             /\ (active /\ onRoll /\ fresh /\ ~inside) => r = "VotingPeriodNotActive"
             /\ (active /\ onRoll /\ fresh /\ inside) => r = "Ok"
    /\ \A c \in VMCallers, o \in VMOptionInputs, t \in Times :
         LET r      == VM_cast_vote(vm, c, o, t).res
             active == vm.current_voting_state = "VotingActive"
             onRoll == c \in vm.registered_voters
             fresh  == c \notin vm.votes_cast
             inside == /\ vm.voting_start_time # None
                       /\ vm.voting_end_time # None
                       /\ vm.voting_start_time[1] <= t
                       /\ t <= vm.voting_end_time[1]
             valid  == o \in DOMAIN vm.vote_counts
         IN  /\ ~active => r = "VotingNotActive"
             /\ (active /\ ~onRoll) => r = "VoterNotRegistered"
             /\ (active /\ onRoll /\ ~fresh) => r = "VoterAlreadyVoted"
             /\ (active /\ onRoll /\ fresh /\ ~inside) => r = "VotingPeriodExpired"
             /\ (active /\ onRoll /\ fresh /\ inside /\ ~valid)
                  => r = "InvalidVoteOption"
             /\ (active /\ onRoll /\ fresh /\ inside /\ valid) => r = "Ok"
    /\ ( /\ ink_last.op = "cast_vote"
         /\ ink.current_voting_state = "VotingActive"
         /\ ~Contains(ink.registered_voters, ink_last.caller) )
         => ink_last.res = "NotRegistered"
    /\ ( /\ vm_last.op = "cast_vote"
         /\ vm.current_voting_state = "VotingActive"
         /\ vm_last.caller \notin vm.registered_voters )
         => vm_last.res = "VoterNotRegistered"

\* the admin, who never registered, tried to vote after the window had
\* closed and was told in both drafts that they are not registered
C30_Witness ==
    /\ ink_last.op = "cast_vote"
    /\ ink_last.caller = ink.admin_id
    /\ ink_last.res = "NotRegistered"
    /\ ink.current_voting_state = "VotingActive"
    /\ ink_env.block_timestamp > ink.voting_end_time
    /\ vm_last.op = "cast_vote"
    /\ vm_last.caller = vm.admin_id
    /\ vm_last.res = "VoterNotRegistered"
    /\ vm.current_voting_state = "VotingActive"
    /\ vm.voting_end_time # None
    /\ vm_now > vm.voting_end_time[1]

\* C31: in the ink contract, while the phase is ResultsFinalized every step
\* other than a successful start_registration or reset_application leaves
\* registered_voters, votes_cast and vote_counts as they were; in that phase
\* register_voter and cast_vote by any caller, at any time, are refused and
\* change nothing, so no vote is counted after end_voting has succeeded.
C31_FinalizedResultsStable ==
    /\ [](ink.current_voting_state = "ResultsFinalized" =>
            \A c \in Accounts :
              /\ Ink_register_voter(ink, c).res # "Ok"
              /\ Ink_register_voter(ink, c).st = ink
              /\ \A o \in VoteOption, t \in Times :
                   /\ Ink_cast_vote(ink, c, o, EnvAt(t)).res # "Ok"
                   /\ Ink_cast_vote(ink, c, o, EnvAt(t)).st = ink)
    /\ [][ ( /\ ink.current_voting_state = "ResultsFinalized"
             /\ ~( /\ ink_last'.op \in {"start_registration", "reset_application"}
                   /\ ink_last'.res = "Ok"
                   /\ ink_last'.caller = ink.admin_id ) )
           => /\ ink'.registered_voters = ink.registered_voters
              /\ ink'.votes_cast = ink.votes_cast
              /\ ink'.vote_counts = ink.vote_counts
              /\ ink'.current_voting_state = "ResultsFinalized" ]_vars

\* a registered voter who had not voted tried to vote after the results were
\* finalized, at a time still inside the window, and was refused
C31_Witness ==
    /\ ink.current_voting_state = "ResultsFinalized"
    /\ ink_last.op = "cast_vote"
    /\ ink_last.res = "InvalidStateTransition"
    /\ Ink_is_registered(ink, ink_last.caller)
    /\ ~Ink_has_voted(ink, ink_last.caller)
    /\ ink.votes_cast # <<>>
    /\ ink_env.block_timestamp <= ink.voting_end_time

\* C32: in the VotingMachine the voter roll is frozen outside registration:
\* while the phase is not RegistrationOpen every step other than a successful
\* start_registration or reset_application leaves registered_voters as it
\* was, register_voter is refused for every caller, and in every reachable
\* state the number of votes cast is at most the number of registered voters.
C32_RollFrozenOutsideRegistration ==
    /\ [](VM_get_votes_cast_count(vm) <= VM_get_registered_voter_count(vm))
    /\ [](vm.current_voting_state # "RegistrationOpen" =>
            \A c \in VMCallers :
              /\ VM_register_voter(vm, c).res = "InvalidState"
              /\ VM_register_voter(vm, c).st = vm)
    /\ [][ ( /\ vm.current_voting_state # "RegistrationOpen"
             /\ ~( /\ vm_last'.op \in {"start_registration", "reset_application"}
                   /\ vm_last'.res = "Ok" ) )
           => vm'.registered_voters = vm.registered_voters ]_vars
    /\ [][ (vm_last'.op = "start_voting" /\ vm_last'.res = "Ok")
           => vm'.registered_voters = vm.registered_voters ]_vars

\* someone who missed registration asked to be registered during the
\* election, after a vote had been cast, and was refused
C32_Witness ==
    /\ vm.current_voting_state = "VotingActive"
    /\ vm_last.op = "register_voter"
    /\ vm_last.res = "InvalidState"
    /\ vm_last.caller \notin vm.registered_voters
    /\ vm.votes_cast # {}

\* the last call was a start_registration or reset_application that succeeded
DraftRestarted ==
    /\ draft_last.op \in {"start_registration", "reset_application"}
    /\ draft_last.res = "Ok"

\* vote_counts has no key, nobody has voted, and cast_vote fails for every
\* caller, option and time
DraftCannotVote ==
    /\ DOMAIN draft.vote_counts = {}
    /\ draft.votes_cast = <<>>
    /\ draft_last.op = "cast_vote" => draft_last.res # "Ok"
    /\ \A c \in DraftCallers, o \in DraftOptionInputs, t \in DraftTimes :
         Draft_cast_vote(draft, c, o, t).res # "Ok"

\* C33: in the free-function draft, from a successful start_registration or
\* reset_application on, in every later state vote_counts has no key,
\* votes_cast is empty and every cast_vote fails, whatever further calls and
\* election cycles follow.
C33_DraftNoVoteAfterRestart == [](DraftRestarted => []DraftCannotVote)

\* in an election opened by start_voting on a map without keys a registered
\* voter named one of the options and was told that the option is invalid
C33_Witness ==
    /\ draft_last.op = "cast_vote"
    /\ draft_last.res = "Invalid vote option."
    /\ draft_last.option \in DraftOptions
    /\ DOMAIN draft.vote_counts = {}
    /\ draft.current_voting_state = "VotingActive"
    /\ draft.voting_end_time > SecsPerHour

\* C34: in the ink contract, with a clock that keeps moving, an admin whose
\* end_voting is not withheld for ever and no start_registration or
\* reset_application during an election, every state with phase VotingActive
\* is followed by a state with phase ResultsFinalized; and in every reachable
\* state the admin's reset_application succeeds and leads to
\* RegistrationOpen, so the contract is never stuck.
C34_ElectionCompletes ==
    /\ []( /\ Ink_reset_application(ink, ink.admin_id).res = "Ok"
           /\ Ink_reset_application(ink, ink.admin_id).st.current_voting_state
                = "RegistrationOpen" )
    /\ (ink.current_voting_state = "VotingActive")
         ~> (ink.current_voting_state = "ResultsFinalized")

\* an election in which a vote was cast has been finalized by the admin after
\* the clock had moved to the end of the window
C34_Witness ==
    /\ ink.current_voting_state = "ResultsFinalized"
    /\ ink_last.op = "end_voting"
    /\ ink_last.res = "Ok"
    /\ ink.votes_cast # <<>>
    /\ ink.voting_end_time > ink.voting_start_time
    /\ ink_env.block_timestamp >= ink.voting_end_time

====
